---- MODULE Spec2Model ----
(***************************************************************************)
(* nrc.py: nonlinear reflection coefficient of a silicon surface.         *)
(*                                                                         *)
(* The program is a loop over four polarization pairs.  Each iteration     *)
(* re-reads the five input tables, evaluates the closed-form amplitude on  *)
(* the energy grid and writes one output table.  The model keeps the       *)
(* numerics: numbers are binary floating point values with a Prec-bit      *)
(* mantissa (numpy's float64/complex128 with a shorter mantissa), complex  *)
(* operations follow numpy's formulas, and a division by zero yields a     *)
(* non-finite value that every later operation propagates.                 *)
(***************************************************************************)
EXTENDS Integers, Sequences, FiniteSets, TLC

(***************************************************************************)
(* Floating point numbers: m * 2^e with m = 0 or 2^(Prec-1) <= |m| <       *)
(* 2^Prec.  Results are truncated to Prec bits.  NonFinite stands for     *)
(* inf and nan alike.                                                      *)
(***************************************************************************)
Prec == 12

Zero == [m |-> 0, e |-> 0]

NonFinite == [m |-> 0, e |-> 1]

IsFinite(a) == a # NonFinite

AbsInt(n) == IF n < 0 THEN -n ELSE n

SignInt(n) == IF n < 0 THEN -1 ELSE 1

BitLen(n) == CHOOSE b \in 1..30 : 2^(b-1) <= n /\ n < 2^b

\* n * 2^e with n cut (k > 0) or widened (k <= 0) by k bits
Shift(n, e, k) ==
    [m |-> IF k > 0 THEN SignInt(n) * (AbsInt(n) \div 2^k) ELSE n * 2^(-k),
     e |-> e + k]

\* the float n * 2^e, truncated to Prec bits
Normalize(n, e) ==
    IF n = 0 THEN Zero ELSE Shift(n, e, BitLen(AbsInt(n)) - Prec)

\* Normalize(n, e) for an n known to have b or b + 1 bits
NormalizeNear(n, e, b) ==
    IF n = 0 THEN Zero
    ELSE Shift(n, e, (IF AbsInt(n) < 2^b THEN b ELSE b + 1) - Prec)

FromInt(n) == Normalize(n, 0)

One == [m |-> 2^(Prec - 1), e |-> 1 - Prec]

Two == [m |-> 2^(Prec - 1), e |-> 2 - Prec]

FNeg(a) == [m |-> -a.m, e |-> a.e]

FAbs(a) == [m |-> AbsInt(a.m), e |-> a.e]

FMul(a, b) ==
    IF a = NonFinite \/ b = NonFinite THEN NonFinite
    ELSE NormalizeNear(a.m * b.m, a.e + b.e, 2 * Prec - 1)

FDiv(a, b) ==
    IF a = NonFinite \/ b = NonFinite \/ b.m = 0 THEN NonFinite
    ELSE NormalizeNear(SignInt(a.m) * SignInt(b.m) * ((AbsInt(a.m) * 2^Prec) \div AbsInt(b.m)),
                       a.e - b.e - Prec, Prec)

\* hi + lo for non-zero floats with hi.e >= lo.e
AddAligned(hi, lo) ==
    IF hi.e - lo.e > Prec + 1 THEN hi
    ELSE Normalize(hi.m * 2^(hi.e - lo.e) + lo.m, lo.e)

FAdd(a, b) ==
    IF a = NonFinite \/ b = NonFinite THEN NonFinite
    ELSE IF a.m = 0 THEN b
    ELSE IF b.m = 0 THEN a
    ELSE AddAligned(IF a.e >= b.e THEN a ELSE b, IF a.e >= b.e THEN b ELSE a)

FSub(a, b) == FAdd(a, FNeg(b))

\* a < b for finite a, b
FLess(a, b) == FSub(a, b).m < 0

RECURSIVE ISqrt(_, _, _)
\* largest r in lo..hi with r * r <= n
ISqrt(lo, hi, n) ==
    IF lo = hi THEN lo
    ELSE IF ((lo + hi + 1) \div 2) * ((lo + hi + 1) \div 2) <= n
    THEN ISqrt((lo + hi + 1) \div 2, hi, n)
    ELSE ISqrt(lo, ((lo + hi + 1) \div 2) - 1, n)

\* math.sqrt; the exponent is made even before the integer root is taken
FSqrt(a) ==
    IF a = NonFinite \/ a.m < 0 THEN NonFinite
    ELSE NormalizeNear(ISqrt(0, 2^Prec * 2, a.m * 2^(Prec + (a.e % 2))),
                       (a.e - (Prec + (a.e % 2))) \div 2, Prec)

FSquare(a) == FMul(a, a)

FCube(a) == FMul(FMul(a, a), a)

RECURSIVE FPow(_, _)
\* a ** n for a positive integer n
FPow(a, n) == IF n = 1 THEN a ELSE FMul(FPow(a, n - 1), a)

\* the decimal literal p / q
Ratio(p, q) == FDiv(FromInt(p), FromInt(q))

RECURSIVE Scale10(_, _)
\* a * 10^e
Scale10(a, e) ==
    IF e = 0 THEN a
    ELSE IF e > 0 THEN Scale10(FMul(a, FromInt(10)), e - 1)
    ELSE Scale10(FDiv(a, FromInt(10)), e + 1)

\* the decimal literal m * 10^e
Dec(m, e) == Scale10(FromInt(m), e)

(***************************************************************************)
(* Complex numbers (complex128): pairs of floats.                          *)
(***************************************************************************)
Cx(re, im) == [re |-> re, im |-> im]

CNonFinite == Cx(NonFinite, NonFinite)

CFinite(z) == z.re # NonFinite /\ z.im # NonFinite

\* a value with a non-finite part is non-finite in both parts
CFix(re, im) ==
    IF re = NonFinite \/ im = NonFinite THEN CNonFinite ELSE Cx(re, im)

RtoC(a) == CFix(a, Zero)

CZero == Cx(Zero, Zero)

COne == Cx(One, Zero)

CIm == Cx(Zero, One)

CAdd(z, w) == CFix(FAdd(z.re, w.re), FAdd(z.im, w.im))

CNeg(z) == Cx(FNeg(z.re), FNeg(z.im))

CSub(z, w) == CFix(FSub(z.re, w.re), FSub(z.im, w.im))

CMul(z, w) ==
    CFix(FSub(FMul(z.re, w.re), FMul(z.im, w.im)),
         FAdd(FMul(z.re, w.im), FMul(z.im, w.re)))

CSquare(z) == CMul(z, z)

\* (a + bi) / (c + di) for |c| >= |d|, with rat = d / c and den = c + d * rat
Smith(a, b, rat, den) ==
    CFix(FDiv(FAdd(a, FMul(b, rat)), den), FDiv(FSub(b, FMul(a, rat)), den))

\* complex conjugate
Conj(z) == Cx(z.re, FNeg(z.im))

\* numpy's complex division (Smith's method); for |c| < |d|, with rat = c / d,
\* the quotient is ((a * rat + b) + (b * rat - a)i) / (c * rat + d)
CDiv(z, w) ==
    IF ~CFinite(z) \/ ~CFinite(w) THEN CNonFinite
    ELSE IF w.re.m = 0 /\ w.im.m = 0 THEN CNonFinite
    ELSE IF FLess(FAbs(w.re), FAbs(w.im))
    THEN Conj(Smith(z.im, z.re, FDiv(w.re, w.im),
                           FAdd(w.im, FMul(w.re, FDiv(w.re, w.im)))))
    ELSE Smith(z.re, z.im, FDiv(w.im, w.re), FAdd(w.re, FMul(w.im, FDiv(w.im, w.re))))

\* numpy.absolute of a complex number: hypot(re, im)
CAbs(z) ==
    IF ~CFinite(z) THEN NonFinite
    ELSE FSqrt(FAdd(FMul(z.re, z.re), FMul(z.im, z.im)))

\* the principal root of z, t being sqrt((|re z| + |z|) / 2)
PrincipalRoot(z, t) ==
    IF z.re.m >= 0 THEN Cx(t, FDiv(z.im, FMul(Two, t)))
    ELSE Cx(FDiv(FAbs(z.im), FMul(Two, t)), IF z.im.m < 0 THEN FNeg(t) ELSE t)

\* numpy.sqrt of a complex number
CSqrt(z) ==
    IF ~CFinite(z) THEN CNonFinite
    ELSE IF z.re.m = 0 /\ z.im.m = 0 THEN CZero
    ELSE PrincipalRoot(z, FSqrt(FDiv(FAdd(FAbs(z.re), CAbs(z)), Two)))

(***************************************************************************)
(* numpy arrays: sequences.  A value is an array v or, when exc is not     *)
(* empty, the exception raised while evaluating it, which propagates       *)
(* through every operation that receives it.  A python scalar and a 0-d    *)
(* array are sequences of length 1.                                        *)
(***************************************************************************)
Array(v) == [exc |-> "", v |-> v]

Raise(e) == [exc |-> e, v |-> <<>>]

IsErr(a) == a.exc # ""

Scalar(v) == Array(<<v>>)

Map1(Op(_), a) ==
    IF IsErr(a) THEN a ELSE Array([i \in 1..Len(a.v) |-> Op(a.v[i])])

\* elementwise binary operation with numpy's broadcasting of length 1
Map2(Op(_, _), a, b) ==
    IF IsErr(a) THEN a
    ELSE IF IsErr(b) THEN b
    ELSE IF Len(a.v) = Len(b.v)
    THEN Array([i \in 1..Len(a.v) |-> Op(a.v[i], b.v[i])])
    ELSE IF Len(b.v) = 1 THEN Array([i \in 1..Len(a.v) |-> Op(a.v[i], b.v[1])])
    ELSE IF Len(a.v) = 1 THEN Array([i \in 1..Len(b.v) |-> Op(a.v[1], b.v[i])])
    ELSE Raise("ValueError")

ToC(a) == Map1(RtoC, a)

(***************************************************************************)
(* User input (nrc.py lines 15-27) and physical constants.                 *)
(***************************************************************************)
OUT == "data/nrc/"

CHI1 == "data/res/chi1"

ZZZ == "data/res/zzz"

ZXX == "data/res/zxx"

XXZ == "data/res/xxz"

XXX == "data/res/xxx"

InputFiles == {CHI1, ZZZ, ZXX, XXZ, XXX}

\* number of points of the energy grid (1200 in nrc.py)
GridLen == 4

\* energies are counted in grid steps of 0.01 eV: linspace(0.01, 0.01 * GridLen, GridLen)
ENERGIES == Array([i \in 1..GridLen |-> i])

\* the float value in eV of an energy given in grid steps
EV(n) == Ratio(n, 100)

ELEC_DENS == Dec(1, -28)

Pi == Ratio(314159, 100000)

SpeedOfLight == FromInt(299792458)

PlanckOver2PiEVs == Dec(658212, -21)

RydbergEV == Ratio(136057, 10000)

LatticeParameterSi == Dec(543102, -15)

\* math.sin and math.cos of radians(deg), tabulated for the angles of the runs;
\* the table has the period of 360 degrees exactly, which float64 has up to rounding
TrigTable ==
    [d \in {10, 30, 65, 90, 130, 150} |->
        CASE d = 10 -> [sin |-> Ratio(173648, 1000000), cos |-> Ratio(984808, 1000000)]
          [] d = 30 -> [sin |-> Ratio(1, 2), cos |-> Ratio(866025, 1000000)]
          [] d = 65 -> [sin |-> Ratio(906308, 1000000), cos |-> Ratio(422618, 1000000)]
          [] d = 90 -> [sin |-> One, cos |-> Zero]
          [] d = 130 -> [sin |-> Ratio(766044, 1000000), cos |-> Ratio(-642788, 1000000)]
          [] d = 150 -> [sin |-> Ratio(1, 2), cos |-> Ratio(-866025, 1000000)]]

sin(deg) == TrigTable[deg % 360].sin

cos(deg) == TrigTable[deg % 360].cos

(***************************************************************************)
(* The run's environment: the input files on disk and the two angles.      *)
(* A file exists or not and holds rows, a row being a sequence of floats.  *)
(***************************************************************************)
Missing == [exists |-> FALSE, rows |-> <<>>]

File(rows) == [exists |-> TRUE, rows |-> rows]

\* loadtxt(in_file, unpack=True, usecols=[1, 2]) of an existing file
loadtxt(rows) ==
    IF Len(rows) = 0 \/ \E i \in 1..Len(rows) : Len(rows[i]) < 3
    THEN Raise("ValueError")
    ELSE Array([i \in 1..Len(rows) |->
                   CAdd(RtoC(rows[i][2]), CMul(CIm, RtoC(rows[i][3])))])

load_matrix(env, in_file) ==
    IF env.disk[in_file].exists
    THEN loadtxt(env.disk[in_file].rows)
    ELSE Raise("IOError")

\* the cubic with backward differences d1, d2, d3 at the last knot, t steps beyond it
EndCubic(yn, d1, d2, d3, t) ==
    FAdd(FAdd(FAdd(yn, FMul(FromInt(t), d1)),
              FMul(FromInt((t * (t + 1)) \div 2), d2)),
         FMul(FromInt((t * (t + 1) * (t + 2)) \div 6), d3))

\* a - 2b + c
Diff2(a, b, c) == FSub(FSub(a, b), FSub(b, c))

\* the spline held constant beyond the last knot
SplineAtClamped(y, x) == IF x <= GridLen THEN y[x] ELSE y[GridLen]

\* value at x (in grid steps) of the cubic spline through (ENERGIES, y):
\* the sample at a knot, the end cubic continued beyond the last knot
SplineAt(y, x) ==
    IF x <= GridLen THEN y[x]
    ELSE EndCubic(y[GridLen],
                  FSub(y[GridLen], y[GridLen - 1]),
                  Diff2(y[GridLen], y[GridLen - 1], y[GridLen - 2]),
                  FSub(Diff2(y[GridLen], y[GridLen - 1], y[GridLen - 2]),
                       Diff2(y[GridLen - 1], y[GridLen - 2], y[GridLen - 3])),
                  x - GridLen)

InterpolatedUnivariateSpline(y, energy) ==
    IF IsErr(y) THEN y
    ELSE IF Len(y.v) # Len(ENERGIES.v) THEN Raise("ValueError")
    ELSE Array([j \in 1..Len(energy.v) |-> SplineAt(y.v, energy.v[j])])

RealPart(z) == z.re

ImagPart(z) == z.im

chi1_real(env, energy) ==
    InterpolatedUnivariateSpline(Map1(RealPart, load_matrix(env, CHI1)), energy)

chi1_imag(env, energy) ==
    InterpolatedUnivariateSpline(Map1(ImagPart, load_matrix(env, CHI1)), energy)

epsilon(env, energy) ==
    Map2(CAdd, Scalar(COne),
         Map2(CMul, Scalar(RtoC(FMul(FromInt(4), Pi))),
              Map2(CAdd, ToC(chi1_real(env, energy)),
                   Map2(CMul, Scalar(CIm), ToC(chi1_imag(env, energy))))))

wave_vector(env, energy) ==
    Map1(CSqrt, Map2(CSub, epsilon(env, energy),
                     Scalar(RtoC(FSquare(sin(env.theta))))))

rif_constants(env, energy) ==
    Map2(FDiv,
         Map2(FMul, Scalar(FMul(FromInt(32), FCube(Pi))),
              Map1(FSquare, Map1(EV, energy))),
         Scalar(FMul(FMul(FMul(ELEC_DENS, FCube(FMul(SpeedOfLight, FromInt(100)))),
                          FSquare(cos(env.theta))),
                     FSquare(PlanckOver2PiEVs))))

\* the lattice parameter in cm
LatticeCm == FMul(LatticeParameterSi, FromInt(100))

complex_esu ==
    CDiv(CMul(CMul(CIm, RtoC(FPow(FMul(Two, RydbergEV), 5))),
              RtoC(FPow(FDiv(Dec(53, -10), LatticeCm), 5))),
         RtoC(FDiv(FMul(Two, FSqrt(FromInt(3))),
                   FSquare(FMul(Two, FSqrt(Two))))))

electrostatic_units(energy) ==
    Map2(CDiv,
         Scalar(CMul(CMul(complex_esu, RtoC(Dec(208, -17))),
                     RtoC(FCube(FDiv(LatticeCm, Dec(1, -8)))))),
         ToC(Map1(FCube, Map1(EV, energy))))

\* 2 cos(theta) / (cos(theta) + k), cosT being cos(theta)
fresnel_vs_s(cosT, k) ==
    Map2(CDiv, Scalar(RtoC(FMul(Two, cosT))), Map2(CAdd, Scalar(RtoC(cosT)), k))

\* 2 cos(theta) / (eps cos(theta) + k)
fresnel_vs_p(cosT, eps, k) ==
    Map2(CDiv, Scalar(RtoC(FMul(Two, cosT))),
         Map2(CAdd, Map2(CMul, eps, Scalar(RtoC(cosT))), k))

fresnel_vs(env, polarization, energy) ==
    IF polarization = "s"
    THEN fresnel_vs_s(cos(env.theta), wave_vector(env, energy))
    ELSE fresnel_vs_p(cos(env.theta), epsilon(env, energy), wave_vector(env, energy))

\* fresnel_sb with one entry of 1 per energy of its argument
fresnel_sbSized(env, polarization, energy) ==
    IF polarization = "s"
    THEN Array([i \in 1..Len(energy.v) |-> COne])
    ELSE Map2(CDiv, Scalar(COne), epsilon(env, energy))

fresnel_sb(env, polarization, energy) ==
    IF polarization = "s"
    THEN Array([i \in 1..GridLen |-> COne])
    ELSE Map2(CDiv, Scalar(COne), epsilon(env, energy))

Mul(a, b) == Map2(CMul, a, b)

\* r_factor with the labels read as output polarization then input polarization
r_factorSwapped(polar_in, polar_out, zzz, zxx, xxz, xxx, eps1, eps2, k1, k2, sinT, cos3P, sin3P) ==
    IF IsErr(zzz) THEN zzz
    ELSE IF IsErr(zxx) THEN zxx
    ELSE IF IsErr(xxz) THEN xxz
    ELSE IF IsErr(xxx) THEN xxx
    ELSE IF polar_in = "p" /\ polar_out = "p"
    THEN Map2(CAdd,
              Mul(Mul(sinT, eps2),
                  Map2(CAdd, Mul(Mul(Map1(CSquare, sinT), Map1(CSquare, eps1)), zzz),
                       Mul(Mul(Map1(CSquare, k1), Map1(CSquare, eps1)), zxx))),
              Mul(Mul(Mul(Mul(eps1, eps2), k1), k2),
                  Map2(CAdd, Mul(Mul(Mul(Scalar(RtoC(FromInt(-2))), sinT), eps1), xxz),
                       Mul(Mul(Mul(k1, eps1), xxx), cos3P))))
    ELSE IF polar_in = "p" /\ polar_out = "s"
    THEN Map2(CSub, Mul(Mul(sinT, eps2), zxx), Mul(Mul(Mul(k2, eps2), xxx), cos3P))
    ELSE IF polar_in = "s" /\ polar_out = "p"
    THEN Mul(Mul(Mul(Map1(CNeg, Map1(CSquare, k1)), Map1(CSquare, eps1)), xxx), sin3P)
    ELSE Mul(xxx, sin3P)

\* r_factor with each component loaded in the branch that uses it
r_factorLazy(polar_in, polar_out, zzz, zxx, xxz, xxx, eps1, eps2, k1, k2, sinT, cos3P, sin3P) ==
    IF polar_in = "p" /\ polar_out = "p"
    THEN Map2(CAdd,
              Mul(Mul(sinT, eps2),
                  Map2(CAdd, Mul(Mul(Map1(CSquare, sinT), Map1(CSquare, eps1)), zzz),
                       Mul(Mul(Map1(CSquare, k1), Map1(CSquare, eps1)), zxx))),
              Mul(Mul(Mul(Mul(eps1, eps2), k1), k2),
                  Map2(CAdd, Mul(Mul(Mul(Scalar(RtoC(FromInt(-2))), sinT), eps1), xxz),
                       Mul(Mul(Mul(k1, eps1), xxx), cos3P))))
    ELSE IF polar_in = "s" /\ polar_out = "p"
    THEN Map2(CSub, Mul(Mul(sinT, eps2), zxx), Mul(Mul(Mul(k2, eps2), xxx), cos3P))
    ELSE IF polar_in = "p" /\ polar_out = "s"
    THEN Mul(Mul(Mul(Map1(CNeg, Map1(CSquare, k1)), Map1(CSquare, eps1)), xxx), sin3P)
    ELSE Mul(xxx, sin3P)

\* lines 114-132: the r factor of one polarization state from the converted
\* components, eps1 = epsilon(energy), eps2 = epsilon(twoenergy), k1 and k2 the
\* wave vectors, sinT = sin(THETA_RAD), cos3P and sin3P those of 3 * PHI_RAD
r_factor(polar_in, polar_out, zzz, zxx, xxz, xxx, eps1, eps2, k1, k2, sinT, cos3P, sin3P) ==
    IF IsErr(zzz) THEN zzz
    ELSE IF IsErr(zxx) THEN zxx
    ELSE IF IsErr(xxz) THEN xxz
    ELSE IF IsErr(xxx) THEN xxx
    ELSE IF polar_in = "p" /\ polar_out = "p"
    THEN Map2(CAdd,
              Mul(Mul(sinT, eps2),
                  Map2(CAdd, Mul(Mul(Map1(CSquare, sinT), Map1(CSquare, eps1)), zzz),
                       Mul(Mul(Map1(CSquare, k1), Map1(CSquare, eps1)), zxx))),
              Mul(Mul(Mul(Mul(eps1, eps2), k1), k2),
                  Map2(CAdd, Mul(Mul(Mul(Scalar(RtoC(FromInt(-2))), sinT), eps1), xxz),
                       Mul(Mul(Mul(k1, eps1), xxx), cos3P))))
    ELSE IF polar_in = "s" /\ polar_out = "p"
    THEN Map2(CSub, Mul(Mul(sinT, eps2), zxx), Mul(Mul(Mul(k2, eps2), xxx), cos3P))
    ELSE IF polar_in = "p" /\ polar_out = "s"
    THEN Mul(Mul(Mul(Map1(CNeg, Map1(CSquare, k1)), Map1(CSquare, eps1)), xxx), sin3P)
    ELSE Mul(xxx, sin3P)

\* a component table as loaded, not converted to electrostatic units
convertedRaw(env, energy, in_file) == load_matrix(env, in_file)

\* lines 110-113: a component table in electrostatic units
converted(env, energy, in_file) ==
    Map2(CMul, electrostatic_units(energy), load_matrix(env, in_file))

\* reflection_components with PHI_RAD in place of 3 * PHI_RAD
reflection_componentsPhi(env, polar_in, polar_out, energy, twoenergy) ==
    r_factor(polar_in, polar_out,
             converted(env, energy, ZZZ), converted(env, energy, ZXX),
             converted(env, energy, XXZ), converted(env, energy, XXX),
             epsilon(env, energy), epsilon(env, twoenergy),
             wave_vector(env, energy), wave_vector(env, twoenergy),
             Scalar(RtoC(sin(env.theta))),
             Scalar(RtoC(cos(env.phi))), Scalar(RtoC(sin(env.phi))))

reflection_components(env, polar_in, polar_out, energy, twoenergy) ==
    r_factor(polar_in, polar_out,
             converted(env, energy, ZZZ), converted(env, energy, ZXX),
             converted(env, energy, XXZ), converted(env, energy, XXX),
             epsilon(env, energy), epsilon(env, twoenergy),
             wave_vector(env, energy), wave_vector(env, twoenergy),
             Scalar(RtoC(sin(env.theta))),
             Scalar(RtoC(cos(3 * env.phi))), Scalar(RtoC(sin(3 * env.phi))))

\* reflectivity with the Fresnel factors of the two polarizations exchanged
reflectivitySwapped(env, state, onee, twoe) ==
    Map2(FMul, rif_constants(env, onee),
         Map1(FSquare,
              Map1(CAbs,
                   Mul(Mul(Mul(fresnel_vs(env, state[1], twoe),
                               fresnel_sb(env, state[1], twoe)),
                           Map1(CSquare, Mul(fresnel_vs(env, state[2], onee),
                                             fresnel_sb(env, state[2], onee)))),
                       reflection_components(env, state[1], state[2], onee, twoe)))))

\* the right-hand side of nrc.py line 37-40 for one polarization state
reflectivity(env, state, onee, twoe) ==
    Map2(FMul, rif_constants(env, onee),
         Map1(FSquare,
              Map1(CAbs,
                   Mul(Mul(Mul(fresnel_vs(env, state[2], twoe),
                               fresnel_sb(env, state[2], twoe)),
                           Map1(CSquare, Mul(fresnel_vs(env, state[1], onee),
                                             fresnel_sb(env, state[1], onee)))),
                       reflection_components(env, state[1], state[2], onee, twoe)))))

column_stack(a, b) ==
    IF IsErr(b) THEN b
    ELSE IF Len(a.v) # Len(b.v) THEN Raise("ValueError")
    ELSE Array([i \in 1..Len(a.v) |-> <<a.v[i], b.v[i]>>])

Twice(n) == 2 * n

\* the list of nrc.py line 35, each state being (input, output) polarization
DefaultPolarization == << <<"p", "p">>, <<"p", "s">>, <<"s", "p">>, <<"s", "s">> >>

OutPath(state) == OUT \o "R" \o state[1] \o state[2]

OutPaths == {OutPath(DefaultPolarization[i]) : i \in 1..4}

\* lines 33-41 for one state: the table handed to save_matrix, or the exception
nrc_table(env, state) ==
    LET onee == ENERGIES
        twoe == Map1(Twice, onee)
    IN  column_stack(Map1(EV, onee), reflectivity(env, state, onee, twoe))

(***************************************************************************)
(* Input tables the runs are tried on.                                     *)
(***************************************************************************)
Row(i, z) == <<FromInt(i), z.re, z.im>>

ConstTable(z, n) == File([i \in 1..n |-> Row(i, z)])

\* chi1 = 0: vacuum, epsilon = 1
ChiVacuum == ConstTable(CZero, GridLen)

\* the chi1 value at which 1 + 4 pi chi1 evaluates to 0
ChiPoleValue ==
    CHOOSE a \in {[m |-> -k, e |-> -3 - Prec] : k \in 2^(Prec - 1)..(2^Prec - 1)} :
        FAdd(FromInt(1), FMul(FMul(FromInt(4), Pi), a)) = Zero

ChiPole == ConstTable(Cx(ChiPoleValue, Zero), GridLen)

\* an absorbing medium whose chi1 varies over the grid
ChiGeneric == File([i \in 1..GridLen |-> Row(i, Cx(Dec(5 + i, -1), Dec(3 * i, -1)))])

\* chi1 = 1 + 0i at every energy
ChiOne == ConstTable(COne, GridLen)

Chi1Tables == {ChiVacuum, ChiPole, ChiGeneric, ChiOne}

TensorZero == ConstTable(CZero, GridLen)

TensorOne == ConstTable(COne, GridLen)

\* the s-th tensor table with a different value at every energy
TensorGeneric(s) ==
    File([i \in 1..GridLen |-> Row(i, Cx(Dec(10 * s + i, -1), Dec(s - 2 * i, -1)))])

TensorIndex(f) == CASE f = ZZZ -> 1 [] f = ZXX -> 2 [] f = XXZ -> 3 [] f = XXX -> 4

Disk(chi, kind) ==
    [f \in InputFiles |->
        IF f = CHI1 THEN chi
        ELSE CASE kind = "zero" -> TensorZero
               [] kind = "one" -> TensorOne
               [] kind = "generic" -> TensorGeneric(TensorIndex(f))]

GenericDisk == Disk(ChiGeneric, "generic")

\* defective versions of an input file
Defect(f, kind) ==
    CASE kind = "missing" -> Missing
      [] kind = "two columns" -> File([i \in 1..GridLen |-> <<FromInt(i), FromInt(1)>>])
      [] kind = "one row" -> File(<<Row(1, Cx(FromInt(2), FromInt(1)))>>)
      [] kind = "short" -> ConstTable(COne, GridLen - 1)
      [] kind = "long" -> ConstTable(COne, GridLen + 1)

Defects == {"missing", "two columns", "one row", "short", "long"}

Thetas == {65, 30}

Phis == {30, 10}

RECURSIVE Perms(_)
\* the orders in which a set of states can be listed
Perms(S) ==
    IF S = {} THEN {<<>>}
    ELSE UNION {{<<s>> \o p : p \in Perms(S \ {s})} : s \in S}

(***************************************************************************)
(* State.                                                                  *)
(***************************************************************************)
VARIABLES
    disk,          \* the input files
    THETA,         \* incidence angle, degrees
    PHI,           \* azimuthal angle, degrees
    polarization,  \* the list of states the loop runs over
    unwritable,    \* output paths on which savetxt fails
    pc,            \* index in polarization of the current loop iteration
    stage,         \* "compute" (lines 37-42) or "save" (line 43)
    nrc,           \* the table computed by the current iteration
    files,         \* the output files: path -> rows (<<>>: not written)
    writes,        \* path -> number of times it was written
    status,        \* "running", "done" or "aborted"
    raised,        \* the exception that aborted the run, and where
    call           \* the last direct call of a function of the module, or NoCall

vars == <<disk, THETA, PHI, polarization, unwritable, pc, stage, nrc, files,
          writes, status, raised, call>>

config == <<disk, THETA, PHI, polarization, unwritable>>

Env == [disk |-> disk, theta |-> THETA, phi |-> PHI]

NoException == [exc |-> "", at |-> ""]

NoCall == [fn |-> "", polarization |-> "", energy |-> <<>>, value |-> Array(<<>>)]

Start ==
    /\ pc = 1
    /\ stage = "compute"
    /\ nrc = <<>>
    /\ files = [o \in OutPaths |-> <<>>]
    /\ writes = [o \in OutPaths |-> 0]
    /\ status = "running"
    /\ raised = NoException
    /\ call = NoCall

\* sound inputs: every table, both angles
InitNumeric ==
    /\ disk \in {Disk(chi, kind) : chi \in Chi1Tables, kind \in {"zero", "one", "generic"}}
    /\ THETA \in Thetas
    /\ PHI \in Phis
    /\ polarization = DefaultPolarization
    /\ unwritable = {}

\* every order of the four states
InitOrder ==
    /\ disk = GenericDisk
    /\ THETA = 65
    /\ PHI = 10
    /\ polarization \in Perms({DefaultPolarization[i] : i \in 1..4})
    /\ unwritable = {}

\* one defective input file
InitDefect ==
    /\ \E f \in InputFiles, kind \in Defects :
           disk = [GenericDisk EXCEPT ![f] = Defect(f, kind)]
    /\ THETA = 65
    /\ PHI = 10
    /\ polarization \in {DefaultPolarization,
                         [i \in 1..4 |-> DefaultPolarization[5 - i]]}
    /\ unwritable = {}

\* one output path that cannot be written
InitUnwritable ==
    /\ disk = GenericDisk
    /\ THETA = 65
    /\ PHI = 10
    /\ polarization = DefaultPolarization
    /\ \E o \in OutPaths : unwritable = {o}

Init == (InitNumeric \/ InitOrder \/ InitDefect \/ InitUnwritable) /\ Start

(***************************************************************************)
(* nonlinear_reflection, one loop iteration in two steps.                  *)
(***************************************************************************)
\* Compute with twoe = onee doubled in place: the grid grows with every iteration
ComputeAliased ==
    /\ status = "running" /\ stage = "compute"
    /\ LET onee == Map1(LAMBDA n : n * 2^(pc - 1), ENERGIES)
           t == column_stack(Map1(EV, onee),
                             reflectivity(Env, polarization[pc], onee, Map1(Twice, onee)))
       IN  /\ ~IsErr(t)
           /\ nrc' = t.v
    /\ stage' = "save"
    /\ UNCHANGED <<config, call, pc, files, writes, status, raised>>

\* lines 37-42: the reflectivity of the current state is computed
Compute ==
    /\ status = "running" /\ stage = "compute"
    /\ LET t == nrc_table(Env, polarization[pc])
       IN  /\ ~IsErr(t)
           /\ nrc' = t.v
    /\ stage' = "save"
    /\ UNCHANGED <<config, call, pc, files, writes, status, raised>>

\* lines 37-42 raise: a load fails or shapes do not match; the run ends
ComputeRaises ==
    /\ status = "running" /\ stage = "compute"
    /\ LET t == nrc_table(Env, polarization[pc])
       IN  /\ IsErr(t)
           /\ raised' = [exc |-> t.exc, at |-> "compute"]
    /\ status' = "aborted"
    /\ UNCHANGED <<config, call, pc, stage, nrc, files, writes>>

\* line 43, save_matrix writes the table
Save ==
    /\ status = "running" /\ stage = "save"
    /\ LET out == OutPath(polarization[pc])
       IN  /\ out \notin unwritable
           /\ files' = [files EXCEPT ![out] = nrc]
           /\ writes' = [writes EXCEPT ![out] = @ + 1]
    /\ nrc' = <<>>
    /\ pc' = pc + 1
    /\ stage' = "compute"
    /\ status' = IF pc = Len(polarization) THEN "done" ELSE "running"
    /\ UNCHANGED <<config, call, raised>>

\* savetxt raises and the exception is swallowed: the loop goes on
SaveSkips ==
    /\ status = "running" /\ stage = "save"
    /\ OutPath(polarization[pc]) \in unwritable
    /\ nrc' = <<>>
    /\ pc' = pc + 1
    /\ stage' = "compute"
    /\ status' = IF pc = Len(polarization) THEN "done" ELSE "running"
    /\ UNCHANGED <<config, call, files, writes, raised>>

\* line 43, savetxt raises; the run ends
SaveRaises ==
    /\ status = "running" /\ stage = "save"
    /\ OutPath(polarization[pc]) \in unwritable
    /\ raised' = [exc |-> "IOError", at |-> "save"]
    /\ status' = "aborted"
    /\ UNCHANGED <<config, call, pc, stage, nrc, files, writes>>

Next == Compute \/ ComputeRaises \/ Save \/ SaveRaises

Spec == Init /\ [][Next]_vars

(***************************************************************************)
(* The functions called on their own, with energy arrays of any length.    *)
(***************************************************************************)
\* energy arguments, in grid steps: one energy, two, the grid, the doubled grid
\* and one more energy than the grid
EnergyArguments ==
    {<<3>>, <<1, 2>>, <<2, GridLen + 3>>, ENERGIES.v, [i \in 1..GridLen |-> 2 * i],
     [i \in 1..(GridLen + 1) |-> i]}

InitCalls ==
    /\ disk \in {Disk(chi, "generic") : chi \in Chi1Tables}
    /\ THETA \in Thetas
    /\ PHI \in Phis
    /\ polarization = DefaultPolarization
    /\ unwritable = {}
    /\ Start

\* lines 96-106, a call fresnel_sb(pol, energy)
CallFresnelSb ==
    /\ \E pol \in {"p", "s"}, energy \in EnergyArguments :
           call' = [fn |-> "fresnel_sb", polarization |-> pol, energy |-> energy,
                    value |-> fresnel_sb(Env, pol, Array(energy))]
    /\ UNCHANGED <<config, pc, stage, nrc, files, writes, status, raised>>

NextCalls == CallFresnelSb

SpecCalls == InitCalls /\ [][NextCalls]_vars

(***************************************************************************)
(* Properties.                                                             *)
(***************************************************************************)
Pols == {"p", "s"}

TwoE == Map1(Twice, ENERGIES)

\* the output file of the pair (input, output)
RFile(in, out) == OUT \o "R" \o in \o out

Written(o) == files[o] # <<>>

\* the two-column table of the grid energies and the values r
TableOf(r) == column_stack(Map1(EV, ENERGIES), r).v

\* the pair (in, out) is the one whose iteration has just ended with its save
JustSaved(in, out) ==
    stage = "compute" /\ pc > 1 /\ polarization[pc - 1] = <<in, out>>

\* rif_constant(E) * |fresnel_vs(out, 2E) * fresnel_sb(out, 2E) *
\* (fresnel_vs(in, E) * fresnel_sb(in, E))^2 * r_factor(in, out)|^2 over the grid
RFormula(env, in, out) ==
    Map2(FMul, rif_constants(env, ENERGIES),
         Map1(FSquare,
              Map1(CAbs,
                   Mul(Mul(Mul(fresnel_vs(env, out, TwoE), fresnel_sb(env, out, TwoE)),
                           Map1(CSquare, Mul(fresnel_vs(env, in, ENERGIES),
                                             fresnel_sb(env, in, ENERGIES)))),
                       reflection_components(env, in, out, ENERGIES, TwoE)))))

\* C1: when the iteration of the pair (in, out) has saved its result, the file
\* 'R' + in + out holds, at every grid energy E, the value rif_constant(E) *
\* |fresnel_vs(out, 2E) * fresnel_sb(out, 2E) * (fresnel_vs(in, E) *
\* fresnel_sb(in, E))^2 * r_factor(in, out)|^2: the output polarization's Fresnel
\* factors at 2E, the input polarization's at E and squared
C1_Formula ==
    \A in \in Pols, out \in Pols :
        JustSaved(in, out) =>
            files[RFile(in, out)] = TableOf(RFormula(Env, in, out))

\* Rps and Rsp are both written, with finite, non-zero and different values
C1_Witness ==
    /\ Written(RFile("p", "s")) /\ Written(RFile("s", "p"))
    /\ \A i \in 1..GridLen :
           /\ IsFinite(files[RFile("p", "s")][i][2])
           /\ IsFinite(files[RFile("s", "p")][i][2])
           /\ files[RFile("p", "s")][i][2].m # 0
           /\ files[RFile("p", "s")][i][2] # files[RFile("s", "p")][i][2]

\* the r factor of the claim for the pair (in, out) at one energy: s = sin(theta),
\* e1 = eps(E), e2 = eps(2E), k1 = k(E), k2 = k(2E), c3 = cos(3 phi), s3 = sin(3 phi)
RClaimed(in, out, s, e1, e2, k1, k2, zzz, zxx, xxz, xxx, c3, s3) ==
    CASE in = "p" /\ out = "p" ->
             CAdd(CMul(CMul(s, e2),
                       CAdd(CMul(CMul(CSquare(s), CSquare(e1)), zzz),
                            CMul(CMul(CSquare(k1), CSquare(e1)), zxx))),
                  CMul(CMul(CMul(CMul(e1, e2), k1), k2),
                       CAdd(CMul(CMul(CMul(RtoC(FromInt(-2)), s), e1), xxz),
                            CMul(CMul(CMul(k1, e1), xxx), c3))))
      [] in = "s" /\ out = "p" ->
             CSub(CMul(CMul(s, e2), zxx), CMul(CMul(CMul(k2, e2), xxx), c3))
      [] in = "p" /\ out = "s" ->
             CMul(CMul(CMul(CNeg(CSquare(k1)), CSquare(e1)), xxx), s3)
      [] in = "s" /\ out = "s" -> CMul(xxx, s3)

\* the claimed r factors at the grid energies, from the arrays over the grid
RClaimedTable(in, out, s, e1, e2, k1, k2, zzz, zxx, xxz, xxx, c3, s3) ==
    [i \in 1..GridLen |->
        RClaimed(in, out, s, e1.v[i], e2.v[i], k1.v[i], k2.v[i],
                 zzz.v[i], zxx.v[i], xxz.v[i], xxx.v[i], c3, s3)]

RClaimedFor(env, in, out) ==
    RClaimedTable(in, out, RtoC(sin(env.theta)),
                  epsilon(env, ENERGIES), epsilon(env, TwoE),
                  wave_vector(env, ENERGIES), wave_vector(env, TwoE),
                  converted(env, ENERGIES, ZZZ), converted(env, ENERGIES, ZXX),
                  converted(env, ENERGIES, XXZ), converted(env, ENERGIES, XXX),
                  RtoC(cos(3 * env.phi)), RtoC(sin(3 * env.phi)))

\* every entry of the complex array a is finite
AllCFinite(a) == \A i \in 1..Len(a.v) : CFinite(a.v[i])

\* the result of the pair (in, out) has been computed and is about to be saved
Computed(in, out) == stage = "save" /\ polarization[pc] = <<in, out>>

\* C2: for the pair (in, out) the pipeline passes, reflection_components returns
\* the formula of that pair, the label being input then output polarization:
\* pp = sin(theta) eps(2E) [sin^2(theta) eps(E)^2 zzz + k(E)^2 eps(E)^2 zxx]
\*      + eps(E) eps(2E) k(E) k(2E) [-2 sin(theta) eps(E) xxz + k(E) eps(E) xxx cos(3 phi)],
\* sp = sin(theta) eps(2E) zxx - k(2E) eps(2E) xxx cos(3 phi),
\* ps = -k(E)^2 eps(E)^2 xxx sin(3 phi), ss = xxx sin(3 phi)
C2_Formula ==
    \A in \in Pols, out \in Pols :
        Computed(in, out) =>
            reflection_components(Env, in, out, ENERGIES, TwoE).v =
                RClaimedFor(Env, in, out)

\* the sp result has been computed; it is finite and differs from the ps formula
C2_Witness ==
    /\ Computed("s", "p")
    /\ AllCFinite(reflection_components(Env, "s", "p", ENERGIES, TwoE))
    /\ reflection_components(Env, "s", "p", ENERGIES, TwoE).v # RClaimedFor(Env, "p", "s")

Tensors == {ZZZ, ZXX, XXZ, XXX}

\* the reflectivity column of an output file
Values(o) == [i \in 1..Len(files[o]) |-> files[o][i][2]]

\* C3: if zzz, zxx, xxz and xxx are zero at every grid energy, the reflection
\* coefficient written is exactly 0 for all four pairs and at every energy,
\* whatever the linear susceptibility table and the angles are
C3_Claim ==
    (\A f \in Tensors : disk[f] = TensorZero) =>
        \A o \in OutPaths : Written(o) => \A i \in 1..GridLen : Values(o)[i] = Zero

\* C4: every reflectivity value written is a real number greater than or equal
\* to 0, and each output table has exactly one row per energy of the grid
C4_Claim ==
    \A o \in OutPaths :
        Written(o) =>
            /\ Len(files[o]) = GridLen
            /\ \A i \in 1..GridLen : IsFinite(Values(o)[i]) /\ Values(o)[i].m >= 0

\* the same environment with the azimuthal angle changed by 120 degrees
Turned(env) == [env EXCEPT !.phi = @ + 120]

Tolerance == [m |-> 2^(Prec - 1), e |-> 7 - 2 * Prec]

\* a and b are finite and differ by no more than Tolerance * |b|
Close(a, b) ==
    /\ IsFinite(a) /\ IsFinite(b)
    /\ ~FLess(FMul(FAbs(b), Tolerance), FAbs(FSub(a, b)))

AllClose(a, b) == Len(a) = Len(b) /\ \A i \in 1..Len(a) : Close(a[i], b[i])

\* every susceptibility table is the constant 1 + 0i, theta = 65 and phi = 30 degrees
C6_Case == disk = Disk(ChiOne, "one") /\ THETA = 65 /\ PHI = 30

\* fresnel_vs(s, 2E) * fresnel_sb(s, 2E) * (fresnel_vs(s, E) * fresnel_sb(s, E))^2
FresnelTerms(env) ==
    Mul(Mul(fresnel_vs(env, "s", TwoE), fresnel_sb(env, "s", TwoE)),
        Map1(CSquare, Mul(fresnel_vs(env, "s", ENERGIES), fresnel_sb(env, "s", ENERGIES))))

\* rif_constant(E) * |Fresnel terms|^2 * |sin(3 phi)|^2
SsWithoutUnits(env) ==
    Map2(FMul,
         Map2(FMul, rif_constants(env, ENERGIES),
              Map1(FSquare, Map1(CAbs, FresnelTerms(env)))),
         Scalar(FSquare(FAbs(sin(3 * env.phi)))))

\* rif_constant(E) * |Fresnel terms * electrostatic_units(E) * sin(3 phi)|^2
SsWithUnits(env) ==
    Map2(FMul, rif_constants(env, ENERGIES),
         Map1(FSquare,
              Map1(CAbs, Mul(Mul(FresnelTerms(env), electrostatic_units(ENERGIES)),
                             Scalar(RtoC(sin(3 * env.phi)))))))

\* C6 as stated: with every table 1 + 0i, theta = 65 and phi = 30 degrees, the ss
\* output at every energy equals rif_constant(E) * |Fresnel terms|^2 *
\* |sin(3 * 30 degrees)|^2, no other energy-dependent factor multiplying the tensor
C6_Claim ==
    (C6_Case /\ JustSaved("s", "s")) =>
        AllClose(Values(RFile("s", "s")), SsWithoutUnits(Env).v)

\* C6 amended: in that case the ss output at every energy equals rif_constant(E) *
\* |Fresnel terms|^2 * |electrostatic_units(E)|^2 * |sin(3 * 30 degrees)|^2, the
\* tensor component being multiplied by the conversion factor electrostatic_units(E)
C6_Amended ==
    (C6_Case /\ JustSaved("s", "s")) =>
        AllClose(Values(RFile("s", "s")), SsWithUnits(Env).v)

\* the ss output of that case is saved, with finite non-zero values
C6_Witness ==
    /\ C6_Case /\ JustSaved("s", "s")
    /\ \A i \in 1..GridLen :
           IsFinite(Values(RFile("s", "s"))[i]) /\ Values(RFile("s", "s"))[i].m > 0

\* the table of an input file has fewer than 3 columns or not one row per grid energy
Misshapen(f) ==
    /\ disk[f].exists
    /\ \/ Len(disk[f].rows) # GridLen
       \/ \E i \in 1..Len(disk[f].rows) : Len(disk[f].rows[i]) < 3

NothingWritten == \A o \in OutPaths : ~Written(o) /\ writes[o] = 0

\* C7: loading an input table fails whenever it has fewer than 3 columns or a
\* number of rows other than the grid length, 1 row included: for every input
\* file the run then ends in an error and no reflectivity is computed from it
C7_Claim ==
    (\E f \in InputFiles : Misshapen(f)) =>
        /\ nrc = <<>>
        /\ NothingWritten
        /\ status # "done"

\* load_matrix raises on the file: it is missing or cannot be parsed
Unreadable(f) == IsErr(load_matrix(Env, f))

\* C8: if one of the five input files is missing or cannot be parsed, the run
\* aborts at the first attempt to load it, in the first iteration whatever the
\* pair, and no output file is written
C8_Formula ==
    (\E f \in InputFiles : Unreadable(f)) =>
        /\ nrc = <<>>
        /\ NothingWritten
        /\ status # "done"
        /\ status = "aborted" => pc = 1 /\ raised.at = "compute"

\* zzz is missing and the run has aborted in its first iteration, that of the
\* pair ss, whose formula does not use zzz
C8_Witness ==
    /\ ~disk[ZZZ].exists
    /\ polarization[1] = <<"s", "s">>
    /\ status = "aborted" /\ raised = [exc |-> "IOError", at |-> "compute"]

\* writing the output of the current pair has failed
SaveFailed == status = "aborted" /\ raised.at = "save"

\* the table a run without failure writes for the j-th pair of the list
Sound(j) == nrc_table(Env, polarization[j]).v

\* C9 as stated: a failure while writing the output of one pair aborts that
\* output only; the other three outputs are still written in the same run
\* (the run has ended when the failure is raised), with the same content
C9_Claim ==
    SaveFailed =>
        \A j \in 1..Len(polarization) :
            j # pc => files[OutPath(polarization[j])] = Sound(j)

\* C9 amended: a failure while writing the output of one pair aborts the run;
\* the outputs of the pairs before it in the list are written with the same
\* content as in a run without the failure, and neither its own output nor
\* that of a pair after it in the list is ever written
C9_Amended ==
    /\ \A k \in 1..Len(polarization) :
           OutPath(polarization[k]) \in unwritable =>
               /\ status # "done"
               /\ \A j \in k..Len(polarization) : ~Written(OutPath(polarization[j]))
    /\ SaveFailed =>
           \A j \in 1..(pc - 1) : files[OutPath(polarization[j])] = Sound(j)

\* the write of the second pair has failed after the first pair was written
C9_Witness ==
    /\ SaveFailed /\ pc = 2
    /\ OutPath(polarization[2]) \in unwritable
    /\ Written(OutPath(polarization[1]))

\* C10: for every order of the pair list, each of the four files Rpp, Rps, Rsp
\* and Rss is written at most once during the run and, when the run is done,
\* exactly once, with the content computed for its pair from the unmodified
\* configuration and tables, the same in every order
C10_Formula ==
    /\ \A o \in OutPaths : writes[o] <= 1
    /\ status = "done" =>
           \A in \in Pols, out \in Pols :
               /\ writes[RFile(in, out)] = 1
               /\ files[RFile(in, out)] = nrc_table(Env, <<in, out>>).v

\* a run over the list in the reverse order is done and has written four tables
C10_Witness ==
    /\ status = "done"
    /\ polarization = [i \in 1..4 |-> DefaultPolarization[5 - i]]
    /\ disk = GenericDisk
    /\ \A o \in OutPaths : Written(o) /\ writes[o] = 1
    /\ files[RFile("p", "s")] # files[RFile("s", "p")]

\* fresnel_sb('s', E) has been called
CalledSbS == call.fn = "fresnel_sb" /\ call.polarization = "s"

\* the product of factors a * b is defined: the shapes of a and b combine
Combines(a, b) == ~IsErr(Mul(a, b))

\* C11 as stated: fresnel_sb('s', E) returns 1+0i at every position, with one
\* entry per energy of the argument E, so that it combines elementwise with
\* the other energy-array factors for any energy array passed in
C11_Claim ==
    CalledSbS =>
        /\ Len(call.value.v) = Len(call.energy)
        /\ \A i \in 1..Len(call.value.v) : call.value.v[i] = COne
        /\ Combines(fresnel_vs(Env, "s", Array(call.energy)), call.value)

\* C11 amended: fresnel_sb('s', E) returns 1+0i at every position, as an array
\* whose length is the grid length whatever the argument E is; it has one
\* entry per energy of E only when E has the grid length, and it combines
\* elementwise with an energy-array factor only when E has the grid length or
\* a single entry
C11_Amended ==
    CalledSbS =>
        /\ call.value.v = [i \in 1..GridLen |-> COne]
        /\ Len(call.value.v) = Len(call.energy) <=> Len(call.energy) = GridLen
        /\ Combines(fresnel_vs(Env, "s", Array(call.energy)), call.value)
               <=> Len(call.energy) \in {1, GridLen}

\* fresnel_sb('s', E) was called with two energies and returned a grid of ones
C11_Witness ==
    /\ CalledSbS
    /\ Len(call.energy) = 2
    /\ Len(call.value.v) = GridLen
    /\ ~Combines(fresnel_vs(Env, "s", Array(call.energy)), call.value)

\* 1 + 4 pi chi1 for chi1 = re + i im
EpsilonOf(re, im) ==
    CAdd(COne, CMul(RtoC(FMul(FromInt(4), Pi)), CAdd(RtoC(re), CMul(CIm, RtoC(im)))))

\* sqrt(eps - sin^2(theta))
WaveVectorOf(eps, theta) == CSqrt(CSub(eps, RtoC(FSquare(sin(theta)))))

\* the cubic through the last samples of y, t grid steps beyond the last one
Continued(y, t) ==
    EndCubic(y[GridLen], FSub(y[GridLen], y[GridLen - 1]),
             Diff2(y[GridLen], y[GridLen - 1], y[GridLen - 2]),
             FSub(Diff2(y[GridLen], y[GridLen - 1], y[GridLen - 2]),
                  Diff2(y[GridLen - 1], y[GridLen - 2], y[GridLen - 3])),
             t)

\* row i, with 2E inside the fitted range: eps(2E) and k(2E) are the values at
\* the fitted point 2E, made of the chi1 sample of that energy
InsideRow(i, chi, eps1, eps2, k1, k2) ==
    /\ TwoE.v[i] <= ENERGIES.v[GridLen]
    /\ eps2.v[i] = EpsilonOf(chi.v[2 * i].re, chi.v[2 * i].im)
    /\ eps2.v[i] = eps1.v[2 * i]
    /\ k2.v[i] = k1.v[2 * i]

\* row i, with 2E beyond the fitted range: there is no chi1 sample at 2E, and
\* eps(2E) and k(2E) are made of the splines continued beyond their last knot
BeyondRow(i, chi, eps2, k2) ==
    /\ TwoE.v[i] > ENERGIES.v[GridLen]
    /\ TwoE.v[i] > Len(chi.v)
    /\ eps2.v[i] = EpsilonOf(Continued([j \in 1..GridLen |-> chi.v[j].re], 2 * i - GridLen),
                              Continued([j \in 1..GridLen |-> chi.v[j].im], 2 * i - GridLen))
    /\ k2.v[i] = WaveVectorOf(eps2.v[i], THETA)

SecondHarmonicRows(chi, eps1, eps2, k1, k2) ==
    \A i \in 1..GridLen :
        IF 2 * i <= GridLen
        THEN InsideRow(i, chi, eps1, eps2, k1, k2)
        ELSE BeyondRow(i, chi, eps2, k2)

\* C12: in nonlinear_reflection eps and k are evaluated at the energies 2E of
\* the grid while the spline is fitted on the grid only: for every grid energy
\* with 2E above the last grid energy (the rows above the middle of the grid)
\* eps(2E) and k(2E) are extrapolated beyond the fitted range, and for every
\* grid energy with 2E up to the last grid energy they are inside it
C12_Formula ==
    stage = "save" =>
        SecondHarmonicRows(load_matrix(Env, CHI1),
                           epsilon(Env, ENERGIES), epsilon(Env, TwoE),
                           wave_vector(Env, ENERGIES), wave_vector(Env, TwoE))

\* eps at the last doubled energy is none of the values on the grid
NotOnGrid(eps1, eps2) == \A j \in 1..GridLen : eps2.v[GridLen] # eps1.v[j]

\* a result has been computed from a chi1 table that varies over the grid, and
\* eps at the last doubled energy, extrapolated, is none of the fitted values
C12_Witness ==
    /\ stage = "save"
    /\ disk[CHI1] = ChiGeneric
    /\ NotOnGrid(epsilon(Env, ENERGIES), epsilon(Env, TwoE))

====
